---- MODULE Spec2Model ----
(***************************************************************************)
(* Model of the kraken share-link converter (src/src/main.rs): the         *)
(* retrieval-and-extraction pipeline fetch_and_convert and its helpers.    *)
(*                                                                         *)
(* Text is a sequence of one-character strings, so that trimming, prefix   *)
(* stripping, pattern search and unescaping are computed on characters.    *)
(* A response body handed to the structured extractor is a sequence of     *)
(* lexical tokens (the pieces its two regular expressions can see).        *)
(* The cache-buster value (epoch seconds) only decorates the URLs and is   *)
(* not modelled.                                                           *)
(***************************************************************************)
EXTENDS Integers, Sequences, FiniteSets, TLC

\* ------------------------------------------------------------------ bounds
MaxRefPieces == 2
MaxBodyTokens == 4
MaxReplyTokens == 2
MaxTextPieces == 3
MaxRawPieces == 3

\* -------------------------------------------------------------- characters
SP == " "
LF == "\n"
CR == "\r"
TAB == "\t"
QUOTE == "\""
BSLASH == "\\"

\* char::is_whitespace, restricted to the characters of the model
IsWhitespace(c) == c \in {SP, LF, CR, TAB}

HTTPS == <<"h", "t", "t", "p", "s", ":", "/", "/">>
HTTP == <<"h", "t", "t", "p", ":", "/", "/">>
SHARE == <<"/", "s", "h", "a", "r", "e", "/">>
TITLE_PREFIX == <<"T", "i", "t", "l", "e", ":">>
YOU_SAID == <<"#", "#", "#", "#", "#", " ", "Y", "o", "u", " ", "s", "a", "i", "d", ":">>
\* the placeholder title "ChatGPT Conversation", shortened
DEFAULT_TITLE == <<"C", "h", "a", "t", "G", "P", "T">>
\* the two role labels of the output, transliterated
USER_LABEL == "Polzovatel"
ASSISTANT_LABEL == "Assistent"

\* ------------------------------------------------------- sequence helpers
SeqsUpTo(S, n) == UNION {[1..k -> S] : k \in 0..n}

RECURSIVE Flatten(_)
Flatten(ss) == IF ss = <<>> THEN <<>> ELSE Head(ss) \o Flatten(Tail(ss))

StartsWith(s, p) == Len(s) >= Len(p) /\ SubSeq(s, 1, Len(p)) = p

\* s[i..] (1-based), empty when i is past the end
From(s, i) == SubSeq(s, i, Len(s))

\* str::trim_start / trim_end / trim
RECURSIVE TrimStart(_)
TrimStart(s) ==
    IF s /= <<>> /\ IsWhitespace(Head(s)) THEN TrimStart(Tail(s)) ELSE s

RECURSIVE TrimEnd(_)
TrimEnd(s) ==
    IF s /= <<>> /\ IsWhitespace(s[Len(s)])
    THEN TrimEnd(SubSeq(s, 1, Len(s) - 1))
    ELSE s

Trim(s) == TrimEnd(TrimStart(s))

\* mutant: the prefix is removed once (strip_prefix)
TrimStartMatches_Once(s, p) ==
    IF StartsWith(s, p) THEN From(s, Len(p) + 1) ELSE s

\* str::trim_start_matches(pat): removes the prefix for as long as it matches
RECURSIVE TrimStartMatches(_, _)
TrimStartMatches(s, p) ==
    IF StartsWith(s, p) THEN TrimStartMatches(From(s, Len(p) + 1), p) ELSE s

\* str::replace("\r\n", "\n"): one left-to-right pass over the input
RECURSIVE ReplaceCRLF(_)
ReplaceCRLF(s) ==
    IF s = <<>> THEN <<>>
    ELSE IF StartsWith(s, <<CR, LF>>) THEN <<LF>> \o ReplaceCRLF(From(s, 3))
    ELSE <<Head(s)>> \o ReplaceCRLF(Tail(s))

\* [String]::join(sep)
RECURSIVE Join(_, _)
Join(items, sep) ==
    IF items = <<>> THEN <<>>
    ELSE IF Len(items) = 1 THEN items[1]
    ELSE items[1] \o sep \o Join(Tail(items), sep)

\* ------------------------------------------------------------ JSON helpers
\* JSON insignificant whitespace
RECURSIVE SkipWs(_, _)
SkipWs(s, i) ==
    IF i <= Len(s) /\ IsWhitespace(s[i]) THEN SkipWs(s, i + 1) ELSE i

ParseFail == [ok |-> FALSE, val |-> <<>>, next |-> 0]

\* serde_json's string literal, from the character after the opening quote:
\* ends at the first unescaped quote; a bad escape, a raw control character
\* or the end of input is an error.  Escapes of the model's alphabet only.
RECURSIVE ScanStr(_, _, _)
ScanStr(s, i, acc) ==
    IF i > Len(s) THEN ParseFail
    ELSE IF s[i] = QUOTE THEN [ok |-> TRUE, val |-> acc, next |-> i + 1]
    ELSE IF s[i] \in {LF, CR, TAB} THEN ParseFail
    ELSE IF s[i] = BSLASH THEN
        IF i + 1 > Len(s) THEN ParseFail
        ELSE IF s[i + 1] = "n" THEN ScanStr(s, i + 2, Append(acc, LF))
        ELSE IF s[i + 1] = "r" THEN ScanStr(s, i + 2, Append(acc, CR))
        ELSE IF s[i + 1] = "t" THEN ScanStr(s, i + 2, Append(acc, TAB))
        ELSE IF s[i + 1] \in {QUOTE, BSLASH, "/"}
             THEN ScanStr(s, i + 2, Append(acc, s[i + 1]))
        ELSE ParseFail
    ELSE ScanStr(s, i + 1, Append(acc, s[i]))

\* the elements of a JSON array of strings, from the first element on
RECURSIVE ParseItems(_, _, _)
ParseItems(s, i, acc) ==
    IF i > Len(s) \/ s[i] /= QUOTE THEN ParseFail
    ELSE LET r == ScanStr(s, i + 1, <<>>)
             j == SkipWs(s, r.next)
         IN  IF ~r.ok THEN ParseFail
             ELSE IF j > Len(s)
                  THEN [ok |-> TRUE, val |-> Append(acc, r.val), next |-> j]
             ELSE IF s[j] = ","
                  THEN ParseItems(s, SkipWs(s, j + 1), Append(acc, r.val))
             ELSE ParseFail

\* serde_json::from_str::<Vec<String>>("[" + span + "]")
ParseStringVec(span) ==
    LET i == SkipWs(span, 1)
    IN  IF i > Len(span) THEN [ok |-> TRUE, val |-> <<>>, next |-> i]
        ELSE ParseItems(span, i, <<>>)

\* json_unescape: decode "\"" + s + "\"" as one JSON string, else s unchanged
json_unescape(s) ==
    LET r == ScanStr(Append(s, QUOTE), 1, <<>>)
    IN  IF r.ok /\ r.next = Len(s) + 2 THEN r.val ELSE s

\* ------------------------------------------------------------- body tokens
\* What the two patterns of parse_backend_to_markdown can see in a body:
\*   role   "role" : "<role>"
\*   parts  "parts" : [<text>]   with <text> free of line breaks and ']'
\*   title  "title" : "<text>"   with <text> up to the next quote
\*   other  anything else
RoleTok(r) == [t |-> "role", role |-> r, text |-> <<>>]
PartsTok(span) == [t |-> "parts", role |-> "", text |-> span]
TitleTok(frag) == [t |-> "title", role |-> "", text |-> frag]
OtherTok == [t |-> "other", role |-> "", text |-> <<>>]

\* what a token is to the patterns: a role token counts for the turn pattern
\* only when its role is one of the alternation (user|assistant)
TokClass(tok) ==
    IF tok.t = "role"
    THEN (IF tok.role \in {"user", "assistant"} THEN "turn_role" ELSE "other")
    ELSE tok.t

\* index of the first token of class c at or after i, 0 when none
RECURSIVE FindTok(_, _, _)
FindTok(body, i, c) ==
    IF i > Len(body) THEN 0
    ELSE IF TokClass(body[i]) = c THEN i
    ELSE FindTok(body, i + 1, c)

\* pattern.captures_iter(body): the non-overlapping matches, left to right.
\* A match starts at a user/assistant role token and, being lazy, ends at the
\* nearest following parts token, whatever lies between; the search resumes
\* after the end of the match.  Each match is [at, role, span, end].
RECURSIVE captures_iter(_, _)
captures_iter(body, from) ==
    LET i == FindTok(body, from, "turn_role")
        j == IF i = 0 THEN 0 ELSE FindTok(body, i + 1, "parts")
    IN  IF i = 0 \/ j = 0 THEN <<>>
        ELSE <<[at |-> i, role |-> body[i].role, span |-> body[j].text,
                end |-> j]>>
             \o captures_iter(body, j + 1)

\* the text of one match (the loop body of parse_backend_to_markdown)
MatchText(span) ==
    LET vec == ParseStringVec(span)
    IN  IF vec.ok THEN Join(vec.val, <<LF, LF>>) ELSE json_unescape(span)

\* ---------------------------------------------------------------- Document
\* The output string, kept as the sequence of pieces pushed onto it.
Heading(title) == [kind |-> "heading", label |-> "# ", text |-> title]
SourceLine(prefix, ref) == [kind |-> "source", label |-> prefix, text |-> ref]
TurnBlock(who, text) == [kind |-> "turn", label |-> who, text |-> text]
BodyBlock(text) == [kind |-> "body", label |-> "", text |-> text]

\* Option<T>: <<>> is None, <<x>> is Some(x)
None == <<>>
Some(x) == <<x>>

\* mutant: the labels exchanged
Who_Swapped(role) == IF role = "assistant" THEN USER_LABEL ELSE ASSISTANT_LABEL

Who(role) == IF role = "assistant" THEN ASSISTANT_LABEL ELSE USER_LABEL

\* the title capture: first "title" token of the body, unescaped
BodyTitle(body) ==
    LET ti == FindTok(body, 1, "title")
    IN  IF ti = 0 THEN None ELSE Some(json_unescape(body[ti].text))

\* msgs: one (role, text) per match, pushed in match order
Msgs(body) ==
    LET caps == captures_iter(body, 1)
    IN  [k \in 1..Len(caps) |->
            [role |-> caps[k].role, text |-> MatchText(caps[k].span)]]

\* the output built from a title and the messages
Render(title, msgs, normalized_share) ==
    <<Heading(IF title = None THEN DEFAULT_TITLE ELSE title[1]),
      SourceLine("https://", normalized_share)>>
    \o [k \in 1..Len(msgs) |->
          TurnBlock(Who(msgs[k].role), ReplaceCRLF(msgs[k].text))]

\* mutant: no check for an empty msgs
parse_backend_to_markdown_NoEmptyCheck(body, normalized_share) ==
    Some(Render(BodyTitle(body), Msgs(body), normalized_share))

parse_backend_to_markdown(body, normalized_share) ==
    IF Msgs(body) = <<>> THEN None
    ELSE Some(Render(BodyTitle(body), Msgs(body), normalized_share))

\* ---------------------------------------------------------- identifier, URLs
IdChars == {"a", "b", "c", "d", "e", "f", "-",
            "0", "1", "2", "3", "4", "5", "6", "7", "8", "9"}

\* mutant: the capture runs to the end of the reference
IdRun_ToEnd(s, i) == From(s, i)

\* the longest run of identifier characters starting at i
RECURSIVE IdRun(_, _)
IdRun(s, i) ==
    IF i <= Len(s) /\ s[i] \in IdChars THEN <<s[i]>> \o IdRun(s, i + 1) ELSE <<>>

\* Regex /share/([a-f0-9\-]+): leftmost place where "/share/" is followed by
\* at least one identifier character; the capture is the whole run
RECURSIVE ShareIdFrom(_, _)
ShareIdFrom(s, i) ==
    IF i > Len(s) THEN None
    ELSE IF StartsWith(From(s, i), SHARE) /\ IdRun(s, i + Len(SHARE)) /= <<>>
         THEN Some(IdRun(s, i + Len(SHARE)))
    ELSE ShareIdFrom(s, i + 1)

extract_share_id(normalized) == ShareIdFrom(normalized, 1)

\* A request URL "https://r.jina.ai/<inner>://<target><arg><sep>_ts=<now>"
BackendUrl(inner, id) ==
    [inner |-> inner, target |-> "chatgpt.com/backend-api/share/",
     arg |-> id, sep |-> "?"]
FallbackUrl(normalized) ==
    [inner |-> "http", target |-> "", arg |-> normalized,
     sep |-> IF \E i \in 1..Len(normalized) : normalized[i] = "?"
             THEN "&" ELSE "?"]

\* mutant: the https-inner candidate first
Candidates_Swapped(normalized) ==
    LET sid == extract_share_id(normalized)
        id == IF sid = None THEN normalized ELSE sid[1]
    IN  <<BackendUrl("https", id), BackendUrl("http", id)>>

\* the candidates vector of try_fetch_backend_json
Candidates(normalized) ==
    LET sid == extract_share_id(normalized)
        id == IF sid = None THEN normalized ELSE sid[1]
    IN  <<BackendUrl("http", id), BackendUrl("https", id)>>

\* mutant: the entry check without the trim
IsBlank_NoTrim(share_url) == share_url = <<>>

\* the entry check of fetch_and_convert
IsBlank(share_url) == Trim(share_url) = <<>>

\* the normalisation at the head of fetch_and_convert
Normalize(share_url) ==
    TrimStartMatches(TrimStartMatches(Trim(share_url), HTTPS), HTTP)

\* ------------------------------------------------------------ HTTP replies
\* send() fails (kind "transport_error"), or yields a response with a status
\* whose body can then be read (text) or not (body_ok = FALSE)
TransportError ==
    [kind |-> "transport_error", status |-> 0, body_ok |-> FALSE, body |-> <<>>]
Response(st, ok, b) ==
    [kind |-> "response", status |-> st, body_ok |-> ok, body |-> b]
Statuses == {200, 304, 404}
\* StatusCode::is_success
is_success(st) == st \in 200..299
\* Response::error_for_status: an error for 4xx and 5xx only
error_for_status(st) == st \in 400..599

\* Result<String>: Ok(md) or Err(e)
Ok(md) == [tag |-> "Ok", md |-> md, err |-> ""]
Err(e) == [tag |-> "Err", md |-> <<>>, err |-> e]

\* --------------------------------------------------------------- fallback
\* Regex ^Title:\s*(.*)$ without the multi-line flag: anchored at both ends
\* of the text, and '.' stops at a line feed
FallbackTitle(text) ==
    LET rest == TrimStart(From(text, Len(TITLE_PREFIX) + 1))
    IN  IF StartsWith(text, TITLE_PREFIX)
           /\ \A i \in 1..Len(rest) : rest[i] /= LF
        THEN rest ELSE DEFAULT_TITLE

\* mutant: the pattern without its line anchor
RECURSIVE FindMarker_Anywhere(_, _)
FindMarker_Anywhere(text, i) ==
    IF i > Len(text) THEN 0
    ELSE IF StartsWith(From(text, i), YOU_SAID) THEN i
    ELSE FindMarker_Anywhere(text, i + 1)

\* Regex (?m)^##### You said: -- start of the first match, 0 when none
RECURSIVE FindMarker(_, _)
FindMarker(text, i) ==
    IF i > Len(text) THEN 0
    ELSE IF (i = 1 \/ text[i - 1] = LF) /\ StartsWith(From(text, i), YOU_SAID)
         THEN i
    ELSE FindMarker(text, i + 1)

FallbackDocument(share_url, text) ==
    LET m == FindMarker(text, 1)
    IN  <<Heading(FallbackTitle(text)), SourceLine("", share_url),
          BodyBlock(IF m /= 0 THEN From(text, m) ELSE text)>>

\* ------------------------------------------------------------------ inputs
RefPieces == {<<SP>>, HTTPS, HTTP, <<"c">>, SHARE \o <<"a", "1">>}
References == {Flatten(ps) : ps \in SeqsUpTo(RefPieces, MaxRefPieces)}

\* captured spans: a one-string array, a two-string array, a string holding
\* an escaped CR LF, one holding an escaped CR CR LF, a bare fragment with an
\* escape, an object (not a string)
Spans ==
    {<<QUOTE, "a", QUOTE>>,
     <<QUOTE, "a", QUOTE, ",", QUOTE, "b", QUOTE>>,
     <<QUOTE, "a", BSLASH, "r", BSLASH, "n", "b", QUOTE>>,
     <<QUOTE, BSLASH, "r", BSLASH, "r", BSLASH, "n", QUOTE>>,
     <<"a", BSLASH, "n">>,
     <<"{", "}">>}
Roles == {"user", "assistant", "system"}
Tokens ==
    {RoleTok(r) : r \in Roles} \cup {PartsTok(sp) : sp \in Spans}
    \cup {TitleTok(<<"t">>), OtherTok}
Bodies == SeqsUpTo(Tokens, MaxBodyTokens)

\* the bodies the proxy answers with in the pipeline runs
ReplyTokens ==
    {RoleTok(r) : r \in Roles}
    \cup {PartsTok(<<QUOTE, "a", QUOTE>>), TitleTok(<<"t">>)}
ReplyBodies == SeqsUpTo(ReplyTokens, MaxReplyTokens)

TextPieces == {<<"x">>, <<LF>>, YOU_SAID, TITLE_PREFIX \o <<SP, "t">>}
Texts == {Flatten(ps) : ps \in SeqsUpTo(TextPieces, MaxTextPieces)}

\* what the proxy can answer to a request whose body is drawn from B
Replies(B) ==
    {TransportError}
    \cup {Response(st, FALSE, <<>>) : st \in Statuses}
    \cup {Response(st, TRUE, b) : st \in Statuses, b \in B}

\* --------------------------------------------------------- App, messages
\* A status or log string: a fixed text followed by a formatted argument
StatusText(msg, arg) == [msg |-> msg, arg |-> arg]

\* what App::update handled last: the message, and for Fetched whether the
\* result was Ok, what the save dialog returned and how the write ended
Handled(m, ok, dialog, write) ==
    [msg |-> m, ok |-> ok, dialog |-> dialog, write |-> write]
NoMessage == Handled("", FALSE, "", "")

\* ------------------------------------------------------------------- state
VARIABLES
    pc,          \* where the invocation of fetch_and_convert stands
    share_url,   \* its argument
    normalized,  \* the normalized reference
    candidates,  \* the candidate URLs of try_fetch_backend_json
    cand,        \* position of the loop over candidates (0 before the loop)
    requests,    \* the URLs requested so far, in order
    outcomes,    \* how each completed request ended, in order
    resp,        \* the reply in hand when the function returned, else None
    result,      \* None while running, then Some(Ok(md)) or Some(Err(e))
    p_in,        \* argument of a direct call of parse_backend_to_markdown
    p_out,       \* and what that call returned
    r_in,        \* a raw reference given to the head of fetch_and_convert
    r_out,       \* and the normalized reference, identifier and candidates
    url,         \* App.url
    format,      \* App.format
    status,      \* App.status
    preview,     \* App.preview
    logs,        \* App.logs
    tasks,       \* the arguments of the fetch_and_convert futures in flight
    files,       \* the documents written to the chosen destinations
    all_lines,   \* every line ever given to push_log, in order
    last,        \* the last message handled by App::update
    steps        \* number of messages handled

pipe_vars ==
    <<pc, share_url, normalized, candidates, cand, requests, outcomes, resp,
      result>>
parse_vars == <<p_in, p_out>>
ref_vars == <<r_in, r_out>>
app_vars == <<url, format, status, preview, logs>>
ui_vars == <<app_vars, tasks, files, all_lines, last, steps>>
vars == <<pipe_vars, parse_vars, ref_vars, ui_vars>>

TypeOK ==
    /\ pc \in {"idle", "candidate", "fallback", "returned"}
    /\ cand \in 0..2
    /\ Len(requests) <= 3
    /\ Len(result) <= 1

Init ==
    /\ pc = "idle"
    /\ share_url = <<>>
    /\ normalized = <<>>
    /\ candidates = <<>>
    /\ cand = 0
    /\ requests = <<>>
    /\ outcomes = <<>>
    /\ resp = None
    /\ result = None
    /\ p_in = None
    /\ p_out = None
    /\ r_in = None
    /\ r_out = None
    /\ url = <<>>
    /\ format = "Markdown"
    /\ status = StatusText("", <<>>)
    /\ preview = <<>>
    /\ logs = <<>>
    /\ tasks = <<>>
    /\ files = <<>>
    /\ all_lines = <<>>
    /\ last = NoMessage
    /\ steps = 0

\* return from fetch_and_convert
Return(r) ==
    /\ pc' = "returned"
    /\ result' = Some(r)

\* fetch_and_convert(url) up to its first await: the entry check, the
\* normalisation, and try_fetch_backend_json up to the first send().
\* Both clients are built from the same fixed configuration, so the build
\* outcome is one choice per invocation.
Convert(arg, built) ==
    /\ pc = "idle"
    /\ share_url' = arg
    /\ UNCHANGED <<outcomes, resp, parse_vars, ref_vars, ui_vars>>
    /\ IF IsBlank(arg)
       THEN /\ Return(Err("empty_input"))
            /\ UNCHANGED <<normalized, candidates, cand, requests>>
       ELSE /\ normalized' = Normalize(arg)
            /\ candidates' = Candidates(Normalize(arg))
            /\ IF ~built
               THEN /\ Return(Err("client_build"))
                    /\ UNCHANGED <<cand, requests>>
               ELSE /\ cand' = 1
                    /\ requests' = <<Candidates(Normalize(arg))[1]>>
                    /\ pc' = "candidate"
                    /\ result' = result

\* mutant: an exhausted candidate list is an error
SendFallback_GiveUp ==
    /\ Return(Err("no_structured_result"))
    /\ UNCHANGED <<cand, requests>>

\* the fallback request of fetch_and_convert, sent once
\* try_fetch_backend_json returned Ok(None)
SendFallback ==
    /\ requests' = Append(requests, FallbackUrl(normalized))
    /\ pc' = "fallback"
    /\ UNCHANGED <<cand, result>>

\* mutant: the loop is left at the first candidate that yields nothing
NextCandidate_Break ==
    /\ requests' = Append(requests, FallbackUrl(normalized))
    /\ pc' = "fallback"
    /\ UNCHANGED <<cand, result>>

\* mutant: a candidate that yields nothing is fetched again
NextCandidate_Retry ==
    IF Len(requests) < 3
    THEN /\ requests' = Append(requests, candidates[cand])
         /\ UNCHANGED <<cand, pc, result>>
    ELSE SendFallback

\* next iteration of `for u in candidates`, or the end of the loop
NextCandidate ==
    IF cand < Len(candidates)
    THEN /\ cand' = cand + 1
         /\ requests' = Append(requests, candidates[cand + 1])
         /\ UNCHANGED <<pc, result>>
    ELSE SendFallback

\* try_fetch_backend_json resumed by the reply to candidate `cand`
CandidateReply(reply) ==
    /\ pc = "candidate"
    /\ UNCHANGED <<share_url, normalized, candidates, parse_vars, ref_vars, ui_vars>>
    /\ IF reply.kind = "transport_error"
       THEN /\ outcomes' = Append(outcomes, "transport_error")
            /\ resp' = Some(reply)
            /\ Return(Err("transport"))
            /\ UNCHANGED <<cand, requests>>
       ELSE IF ~is_success(reply.status)
       THEN /\ outcomes' = Append(outcomes, "bad_status")
            /\ resp' = None
            /\ NextCandidate
       ELSE IF ~reply.body_ok
       THEN /\ outcomes' = Append(outcomes, "body_error")
            /\ resp' = Some(reply)
            /\ Return(Err("transport"))
            /\ UNCHANGED <<cand, requests>>
       ELSE LET md == parse_backend_to_markdown(reply.body, normalized)
            IN  IF md /= None
                THEN /\ outcomes' = Append(outcomes, "turns")
                     /\ resp' = Some(reply)
                     /\ Return(Ok(md[1]))
                     /\ UNCHANGED <<cand, requests>>
                ELSE /\ outcomes' = Append(outcomes, "no_turns")
                     /\ resp' = None
                     /\ NextCandidate

\* fetch_and_convert resumed by the reply to the fallback request
FallbackReply(reply) ==
    /\ pc = "fallback"
    /\ UNCHANGED <<share_url, normalized, candidates, cand, requests, parse_vars,
                   ref_vars, ui_vars>>
    /\ resp' = Some(reply)
    /\ IF reply.kind = "transport_error"
       THEN /\ outcomes' = Append(outcomes, "transport_error")
            /\ Return(Err("transport"))
       ELSE IF error_for_status(reply.status)
       THEN /\ outcomes' = Append(outcomes, "bad_status")
            /\ Return(Err("status"))
       ELSE IF ~reply.body_ok
       THEN /\ outcomes' = Append(outcomes, "body_error")
            /\ Return(Err("transport"))
       ELSE /\ outcomes' = Append(outcomes, "text")
            /\ Return(Ok(FallbackDocument(share_url, reply.body)))

Next ==
    \/ pc = "idle" /\ \E arg \in References, built \in BOOLEAN : Convert(arg, built)
    \/ pc = "candidate" /\ \E reply \in Replies(ReplyBodies) : CandidateReply(reply)
    \/ pc = "fallback" /\ \E reply \in Replies(Texts) : FallbackReply(reply)

Spec == Init /\ [][Next]_vars

\* ---------------------------------- the pipeline when every fetch completes
\* References, candidate bodies and fetched texts that take every branch of
\* the pipeline: blank and non-blank input, with and without a share
\* identifier; a body with no turn and one with a turn; a text with and
\* without the marker
FairReferences == {<<SP>>, <<"c">>, HTTPS \o <<"c">>, SHARE \o <<"a", "1">>}
FairBodies == {<<>>, <<RoleTok("user"), PartsTok(<<QUOTE, "a", QUOTE>>)>>}
FairTexts == {<<"x">>, YOU_SAID}

\* the awaited send() / text() of the request in flight completes, with a
\* response or a failure
CandidateCompletes ==
    pc = "candidate" /\ \E reply \in Replies(FairBodies) : CandidateReply(reply)
FallbackCompletes ==
    pc = "fallback" /\ \E reply \in Replies(FairTexts) : FallbackReply(reply)

NextFair ==
    \/ pc = "idle" /\ \E arg \in FairReferences, built \in BOOLEAN : Convert(arg, built)
    \/ CandidateCompletes
    \/ FallbackCompletes

\* the pipeline under the assumption that every issued fetch completes
SpecFair ==
    /\ Init
    /\ [][NextFair]_vars
    /\ WF_vars(CandidateCompletes)
    /\ WF_vars(FallbackCompletes)

\* ------------------------------------- the structured extractor on its own
ShareRefs == {<<"c">>, SHARE \o <<"a", "1">>}

ParseCall(body, ref) ==
    /\ p_in = None
    /\ p_in' = Some([body |-> body, normalized_share |-> ref])
    /\ p_out' = parse_backend_to_markdown(body, ref)
    /\ UNCHANGED <<pipe_vars, ref_vars, ui_vars>>

NextParse == p_in = None /\ \E body \in Bodies, ref \in ShareRefs : ParseCall(body, ref)

SpecParse == Init /\ [][NextParse]_vars

\* --------------------------------- the head of fetch_and_convert on its own
RawPieces == {<<SP>>, HTTPS, HTTP, <<"x">>, SHARE, <<"a", "1">>}
RawReferences == {Flatten(ps) : ps \in SeqsUpTo(RawPieces, MaxRawPieces)}

\* the entry check, the normalisation, the identifier and the candidates for
\* the raw reference; nothing is produced for a blank reference
NormalizeCall(raw) ==
    /\ r_in = None
    /\ r_in' = Some(raw)
    /\ r_out' = IF IsBlank(raw) THEN None
                ELSE Some([normalized |-> Normalize(raw),
                           id |-> extract_share_id(Normalize(raw)),
                           candidates |-> Candidates(Normalize(raw))])
    /\ UNCHANGED <<pipe_vars, parse_vars, ui_vars>>

NextRef == r_in = None /\ \E raw \in RawReferences : NormalizeCall(raw)

SpecRef == Init /\ [][NextRef]_vars

\* ----------------------------------------------------------------- the App
MaxUiSteps == 5
MaxLogOverflow == 4
LOG_CAP == 500

Formats == {"Markdown", "PdfDisabled"}
UiUrls == {<<>>, <<"c">>, HTTPS \o <<"c">>}
Clipboards == {None, Some(<<"c">>)}

\* the Documents convert delivers to the App in these runs
UiDocument(u) ==
    Render(None, <<[role |-> "user", text |-> <<"a">>]>>, Normalize(u))

\* what fetch_and_convert(u).await.map_err(|e| e.to_string()) can deliver
PipelineResults(u) ==
    IF IsBlank(u) THEN {Err("empty_input")}
    ELSE {Ok(UiDocument(u)), Ok(FallbackDocument(u, <<"x">>)),
          Err("transport"), Err("status")}

\* mutant: the newest lines are the ones dropped
push_log_DropNewest(lg, line) ==
    LET pushed == Append(lg, line)
    IN  IF Len(pushed) > LOG_CAP THEN SubSeq(pushed, 1, LOG_CAP) ELSE pushed

\* App::push_log on the log lg
push_log(lg, line) ==
    LET pushed == Append(lg, line)
    IN  IF Len(pushed) > LOG_CAP
        THEN SubSeq(pushed, Len(pushed) - LOG_CAP + 1, Len(pushed))
        ELSE pushed

\* the calls self.push_log(l) for the lines ls, in order
RECURSIVE PushAll(_, _)
PushAll(lg, ls) ==
    IF ls = <<>> THEN lg ELSE PushAll(push_log(lg, Head(ls)), Tail(ls))

Log(ls) ==
    /\ logs' = PushAll(logs, ls)
    /\ all_lines' = all_lines \o ls

\* every call of update handles one message
Handle(h) ==
    /\ last' = h
    /\ steps' = steps + 1
    /\ UNCHANGED <<pipe_vars, parse_vars, ref_vars>>

\* Message::UrlChanged(s)
UrlChanged(s) ==
    /\ url' = s
    /\ Handle(Handled("UrlChanged", FALSE, "", ""))
    /\ UNCHANGED <<format, status, preview, logs, tasks, files, all_lines>>

\* Message::FormatChanged(fmt)
FormatChanged(fmt) ==
    /\ format' = fmt
    /\ Handle(Handled("FormatChanged", FALSE, "", ""))
    /\ UNCHANGED <<url, status, preview, logs, tasks, files, all_lines>>

\* Message::PasteClicked, with what read_clipboard_text() returns
PasteClicked(clip) ==
    /\ Handle(Handled("PasteClicked", FALSE, "", ""))
    /\ IF clip /= None
       THEN /\ url' = clip[1]
            /\ Log(<<StatusText("Pasted URL from clipboard", <<>>)>>)
       ELSE UNCHANGED <<url, logs, all_lines>>
    /\ UNCHANGED <<format, status, preview, tasks, files>>

\* Message::DownloadClicked: the Command starts one more future
DownloadClicked ==
    /\ status' = StatusText("Downloading...", <<>>)
    /\ preview' = <<>>
    /\ Log(<<StatusText("Start download: ", url)>>)
    /\ tasks' = Append(tasks, url)
    /\ Handle(Handled("DownloadClicked", FALSE, "", ""))
    /\ UNCHANGED <<url, format, files>>

\* mutant: the save dialog is shown whatever the format
SavesAs_Always(fmt) == TRUE

\* whether the result is offered to the save dialog
SavesAs(fmt) == fmt = "Markdown"

\* mutant: a failed write is reported
StatusAfterWrite_Checked(write) ==
    IF write = "ok" THEN StatusText("Saved", <<>>)
    ELSE StatusText("Error: ", <<"write">>)

\* the status once fs::write(path, md) has returned
StatusAfterWrite(write) == StatusText("Saved", <<>>)

Remove(q, i) == SubSeq(q, 1, i - 1) \o SubSeq(q, i + 1, Len(q))

\* Message::Fetched(res): future i has completed with res; dialog is what
\* FileDialog::save_file returned and write how fs::write ended ("none" when
\* not called)
Fetched(i, res, dialog, write) ==
    /\ i \in 1..Len(tasks)
    /\ res \in PipelineResults(tasks[i])
    /\ dialog \in (IF res.tag = "Ok" /\ SavesAs(format)
                   THEN {"chosen", "cancelled"} ELSE {"none"})
    /\ write \in (IF dialog = "chosen" THEN {"ok", "failed"} ELSE {"none"})
    /\ tasks' = Remove(tasks, i)
    /\ Handle(Handled("Fetched", res.tag = "Ok", dialog, write))
    /\ UNCHANGED <<url, format>>
    /\ IF res.tag = "Ok"
       THEN /\ preview' = res.md
            /\ IF SavesAs(format)
               THEN IF dialog = "chosen"
                    THEN /\ files' = (IF write = "ok" THEN Append(files, res.md)
                                      ELSE files)
                         /\ status' = StatusAfterWrite(write)
                         /\ Log(<<StatusText("Fetched & parsed successfully", <<>>),
                                  StatusText("File saved", <<>>)>>)
                    ELSE /\ status' = StatusText("Save cancelled", <<>>)
                         /\ Log(<<StatusText("Fetched & parsed successfully", <<>>),
                                  StatusText("Save cancelled", <<>>)>>)
                         /\ UNCHANGED files
               ELSE /\ status' = StatusText("PDF is disabled for now", <<>>)
                    /\ Log(<<StatusText("Fetched & parsed successfully", <<>>),
                             StatusText("PDF is disabled", <<>>)>>)
                    /\ UNCHANGED files
       ELSE /\ status' = StatusText("Error: ", <<res.err>>)
            /\ Log(<<StatusText("Error: ", <<res.err>>)>>)
            /\ UNCHANGED <<preview, files>>

AllResults == UNION {PipelineResults(u) : u \in UiUrls}

MoreUI == steps < MaxUiSteps

NextUI ==
    \/ MoreUI /\ \E s \in UiUrls : UrlChanged(s)
    \/ MoreUI /\ \E fmt \in Formats : FormatChanged(fmt)
    \/ MoreUI /\ \E clip \in Clipboards : PasteClicked(clip)
    \/ MoreUI /\ DownloadClicked
    \/ MoreUI /\ \E i \in 1..Len(tasks), res \in AllResults,
                    dialog \in {"chosen", "cancelled", "none"},
                    write \in {"ok", "failed", "none"} :
                        Fetched(i, res, dialog, write)

SpecUI == Init /\ [][NextUI]_vars

\* One user who pastes a link, clicks Download, and saves the result, over
\* and over: the run that fills the log past its capacity.
MoreLog == Len(all_lines) < LOG_CAP + MaxLogOverflow

NextLog ==
    \/ MoreLog /\ last.msg \in {"", "Fetched"} /\ PasteClicked(Some(<<"c">>))
    \/ MoreLog /\ last.msg = "PasteClicked" /\ DownloadClicked
    \/ MoreLog /\ last.msg = "DownloadClicked"
               /\ Fetched(1, Ok(UiDocument(<<"c">>)), "chosen", "ok")

SpecLog == Init /\ [][NextLog]_vars

\* ================================================================== claims
ReturnedErr == result /= None /\ result[1].tag = "Err"
ReturnedOk == result /= None /\ result[1].tag = "Ok"
LastRequest == requests[Len(requests)]
IsCandidateUrl(u) == u.target = "chatgpt.com/backend-api/share/"
IsFallbackUrl(u) == ~IsCandidateUrl(u)
\* the ways a candidate can end that let the pipeline go on
NoYield == {"bad_status", "no_turns"}
TurnBlocks(doc) == SelectSeq(doc, LAMBDA blk : blk.kind = "turn")

\* C1: a transport failure while fetching a structured candidate is absorbed:
\* convert never returns an error with the failed request to a candidate as
\* its last request.
C1_CandidateTransportAbsorbed ==
    ~(/\ ReturnedErr
      /\ requests /= <<>>
      /\ IsCandidateUrl(LastRequest)
      /\ resp /= None
      /\ resp[1].kind = "transport_error")

\* a body with exactly one message, a user message with its content
OneUserTurn(body) ==
    /\ Cardinality({i \in 1..Len(body) : body[i].t = "role"}) = 1
    /\ Cardinality({i \in 1..Len(body) : body[i].t = "parts"}) = 1
    /\ \E i, j \in 1..Len(body) :
         i < j /\ body[i] = RoleTok("user") /\ body[j].t = "parts"
PartsOf(body) == body[CHOOSE j \in 1..Len(body) : body[j].t = "parts"].text

\* C2: a non-success status on a candidate is not an error: the pipeline goes
\* on with the next candidate (the fallback after the last); and when the first
\* candidate has a non-success status and the second a body with one user
\* turn, convert returns a Document with exactly that user turn and sends no
\* fallback request.
C2_BadStatusMovesOn ==
    /\ \A k \in 1..Len(outcomes) :
         (k <= 2 /\ outcomes[k] = "bad_status") =>
            /\ Len(requests) > k
            /\ requests[k + 1] =
                 (IF k < 2 THEN candidates[k + 1] ELSE FallbackUrl(normalized))
    /\ ( /\ outcomes = <<"bad_status", "turns">>
         /\ OneUserTurn(resp[1].body) ) =>
            /\ ReturnedOk
            /\ TurnBlocks(result[1].md) =
                 <<TurnBlock(USER_LABEL,
                             ReplaceCRLF(MatchText(PartsOf(resp[1].body))))>>
            /\ Len(requests) = 2
            /\ \A k \in 1..2 : IsCandidateUrl(requests[k])

C2_Witness ==
    /\ pc = "returned"
    /\ outcomes = <<"bad_status", "turns">>
    /\ OneUserTurn(resp[1].body)

\* C3: when the fallback request fails in transport or is answered with a
\* non-success status, convert returns an error.
C3_FallbackFailureIsError ==
    ( /\ pc = "returned"
      /\ requests /= <<>>
      /\ IsFallbackUrl(LastRequest)
      /\ resp /= None
      /\ (resp[1].kind = "transport_error" \/ ~is_success(resp[1].status)) )
    => ReturnedErr

\* C4: two candidates, http-inner then https-inner, requested one after the
\* other in that order; the second only after the first was handled and
\* yielded no turn; nothing is requested after a candidate yielded a turn.
C4_SequentialCandidates ==
    /\ pc \in {"candidate", "fallback"} => candidates /= <<>>
    /\ candidates /= <<>> =>
         /\ Len(candidates) = 2
         /\ IsCandidateUrl(candidates[1]) /\ candidates[1].inner = "http"
         /\ IsCandidateUrl(candidates[2]) /\ candidates[2].inner = "https"
    /\ \A k \in 1..Len(requests) : k <= 2 => requests[k] = candidates[k]
    /\ Len(requests) <= Len(outcomes) + 1
    /\ Len(requests) >= 2 => outcomes[1] \in NoYield
    /\ \A k \in 1..Len(outcomes) :
         outcomes[k] = "turns" => Len(requests) = k /\ pc = "returned"

C4_Witness ==
    /\ pc = "returned"
    /\ outcomes = <<"no_turns", "turns">>
    /\ Len(requests) = 2

C6_BlankInputFailsWithoutFetch ==
    (pc /= "idle" /\ Trim(share_url) = <<>>) =>
        /\ pc = "returned"
        /\ result = Some(Err("empty_input"))
        /\ requests = <<>>

C6_Witness ==
    /\ pc = "returned"
    /\ share_url /= <<>>
    /\ \A i \in 1..Len(share_url) : share_url[i] = SP
    /\ result = Some(Err("empty_input"))

\* C7: in an invocation that passed the entry check, the normalized reference
\* handed to the identifier extractor, the candidate generator and the
\* fallback is not empty.
C7_ReferenceNonEmpty ==
    pc \in {"candidate", "fallback"} => normalized /= <<>>

\* ------------------------------------------------ the structured extractor
\* the body and the result of the direct call
InBody == p_in[1].body

\* no user/assistant role token is followed by a content array
NoRoleContentMatch(body) ==
    ~\E i, j \in 1..Len(body) :
        i < j /\ body[i] \in {RoleTok("user"), RoleTok("assistant")}
              /\ body[j].t = "parts"

\* C8: the structured extractor never returns a Document without a turn: a
\* body with no role/content match gives no structured result, and a returned
\* Document has at least one turn block.
C8_NeverZeroTurns ==
    p_in /= None =>
        /\ NoRoleContentMatch(InBody) => p_out = None
        /\ p_out /= None => TurnBlocks(p_out[1]) /= <<>>

C8_Witness ==
    /\ p_in /= None
    /\ p_out = None
    /\ \E i, j \in 1..Len(InBody) :
         i < j /\ InBody[i] = RoleTok("system") /\ InBody[j].t = "parts"

\* The role/content matches of a body, read off in one pass from left to
\* right: a user/assistant role opens a match unless one is open, the next
\* content array closes it.
RECURSIVE MatchesInOrder(_, _, _)
MatchesInOrder(body, i, open) ==
    IF i > Len(body) THEN <<>>
    ELSE IF open = "" /\ body[i] \in {RoleTok("user"), RoleTok("assistant")}
         THEN MatchesInOrder(body, i + 1, body[i].role)
    ELSE IF open /= "" /\ body[i].t = "parts"
         THEN <<[role |-> open, span |-> body[i].text]>>
              \o MatchesInOrder(body, i + 1, "")
    ELSE MatchesInOrder(body, i + 1, open)

RoleLabel(role) ==
    CASE role = "user" -> USER_LABEL
      [] role = "assistant" -> ASSISTANT_LABEL

\* C9: the turn blocks of the Document are one per role/content match, in the
\* order of the matches in the body; each carries the label of the role of its
\* own match and the text of its own match.
C9_TurnsInMatchOrder ==
    (p_in /= None /\ p_out /= None) =>
        LET ms == MatchesInOrder(InBody, 1, "")
            blocks == TurnBlocks(p_out[1])
        IN  /\ Len(blocks) = Len(ms)
            /\ \A k \in 1..Len(ms) :
                 /\ blocks[k].label = RoleLabel(ms[k].role)
                 /\ blocks[k].text = ReplaceCRLF(MatchText(ms[k].span))
            /\ SubSeq(p_out[1], 3, Len(p_out[1])) = blocks

C9_Witness ==
    /\ p_in /= None
    /\ p_out /= None
    /\ Len(TurnBlocks(p_out[1])) = 2
    /\ TurnBlocks(p_out[1])[1].label = USER_LABEL
    /\ TurnBlocks(p_out[1])[2].label = ASSISTANT_LABEL

\* the content array of the message that the role token at i opens: the
\* first one after i with no other role token in between, 0 when none
ContentOf(body, i) ==
    LET js == {j \in (i + 1)..Len(body) :
                 /\ body[j].t = "parts"
                 /\ \A m \in (i + 1)..(j - 1) : body[m].t /= "role"}
    IN  IF js = {} THEN 0 ELSE CHOOSE j \in js : \A m \in js : j <= m

\* C10: every turn has the user or the assistant label, and a message with any
\* other role gives no turn: its content is not the content of any turn.
C10_OtherRolesSkipped ==
    (p_in /= None) =>
        /\ p_out /= None =>
             \A k \in 1..Len(TurnBlocks(p_out[1])) :
                 TurnBlocks(p_out[1])[k].label \in {USER_LABEL, ASSISTANT_LABEL}
        /\ \A i \in 1..Len(InBody) :
             ( /\ InBody[i].t = "role"
               /\ InBody[i].role \notin {"user", "assistant"}
               /\ ContentOf(InBody, i) /= 0 ) =>
                 \A k \in 1..Len(captures_iter(InBody, 1)) :
                     captures_iter(InBody, 1)[k].end /= ContentOf(InBody, i)

\* ------------------------------------------------------------------ the App
\* C11: at most one invocation of the pipeline is in flight at any time.
C11_OneInvocationInFlight == Len(tasks) <= 1

LastLines(ls, n) == SubSeq(ls, Len(ls) - n + 1, Len(ls))
Min(a, b) == IF a <= b THEN a ELSE b

\* C12: the log holds at most 500 lines, and they are the most recent
\* min(n, 500) of the n lines appended so far, in the order appended.
C12_LogKeepsMostRecent ==
    /\ Len(logs) <= 500
    /\ logs = LastLines(all_lines, Min(Len(all_lines), 500))

C12_Witness ==
    /\ Len(all_lines) > 500
    /\ Len(logs) = 500
    /\ logs[1] = all_lines[Len(all_lines) - 499]

\* C19: a document is written only while handling a successful result with
\* Markdown selected and a destination returned by the save dialog; an error,
\* a cancellation or the PDF format writes nothing, and a cancellation leaves
\* the status 'Save cancelled'.
C19_WriteOnlyOnMarkdownSave ==
    /\ [][files' /= files =>
            /\ last'.msg = "Fetched" /\ last'.ok
            /\ format = "Markdown"
            /\ last'.dialog = "chosen"
            /\ files' = Append(files, preview')]_vars
    /\ [][( /\ steps' /= steps
            /\ last'.msg = "Fetched"
            /\ (~last'.ok \/ last'.dialog = "cancelled" \/ format = "PdfDisabled") )
          => files' = files]_vars
    /\ []((last.msg = "Fetched" /\ last.dialog = "cancelled")
            => status = StatusText("Save cancelled", <<>>))
    /\ []((last.msg = "Fetched" /\ last.ok /\ format = "PdfDisabled")
            => last.dialog = "none")

C19_Witness ==
    /\ Len(files) = 1
    /\ last.msg = "Fetched"
    /\ last.dialog = "cancelled"
    /\ status = StatusText("Save cancelled", <<>>)

\* C20: once the save dialog returned a destination the status is 'Saved' and
\* 'File saved' is the last log line, whether the write succeeded or failed.
C20_SavedWhateverTheWrite ==
    (last.msg = "Fetched" /\ last.dialog = "chosen") =>
        /\ last.write \in {"ok", "failed"}
        /\ status = StatusText("Saved", <<>>)
        /\ logs /= <<>>
        /\ logs[Len(logs)] = StatusText("File saved", <<>>)

C20_Witness ==
    /\ last.msg = "Fetched"
    /\ last.dialog = "chosen"
    /\ last.write = "failed"
    /\ status = StatusText("Saved", <<>>)
    /\ files = <<>>

\* ------------------------------------------------------------ the reference
RawTrimmed == Trim(r_in[1])
OutNormalized == r_out[1].normalized
HasScheme(s) == StartsWith(s, HTTPS) \/ StartsWith(s, HTTP)

\* one leading https://, otherwise one leading http://, removed
StripOne(t) ==
    IF StartsWith(t, HTTPS) THEN From(t, Len(HTTPS) + 1)
    ELSE IF StartsWith(t, HTTP) THEN From(t, Len(HTTP) + 1)
    ELSE t

\* C13: the normalizer removes at most one leading scheme prefix from the
\* trimmed input, a leading https:// or otherwise a leading http://, and
\* leaves everything after it in place.
C13_AtMostOneSchemeStripped ==
    r_out /= None => OutNormalized = StripOne(RawTrimmed)

RECURSIVE Rep(_, _)
Rep(p, n) == IF n = 0 THEN <<>> ELSE p \o Rep(p, n - 1)

\* C13 as amended: the normalizer removes every leading https:// of the
\* trimmed input and then every leading http://; what follows, an https://
\* after a removed http:// included, is left in place.
C13_AllLeadingRepeatsStripped ==
    r_out /= None =>
        \E a, b \in 0..Len(RawTrimmed) :
            /\ RawTrimmed = Rep(HTTPS, a) \o Rep(HTTP, b) \o OutNormalized
            /\ ~StartsWith(OutNormalized, HTTP)
            /\ b = 0 => ~StartsWith(OutNormalized, HTTPS)

C13_Witness ==
    /\ r_out /= None
    /\ RawTrimmed = HTTPS \o HTTPS \o <<"x">>
    /\ OutNormalized = <<"x">>

\* C14: normalization is idempotent, its output never begins with a scheme
\* prefix, and a trimmed reference without a leading scheme is returned
\* unchanged.
C14_NormalizeIdempotent ==
    r_out /= None =>
        /\ Normalize(OutNormalized) = OutNormalized
        /\ ~HasScheme(OutNormalized)
        /\ ~HasScheme(RawTrimmed) => OutNormalized = RawTrimmed

\* the places of s where "/share/" is followed by an identifier character
ShareSegments(s) ==
    {i \in 1..Len(s) :
        /\ StartsWith(From(s, i), SHARE)
        /\ i + Len(SHARE) <= Len(s)
        /\ s[i + Len(SHARE)] \in IdChars}

C15_WitnessAbsent ==
    /\ r_out /= None
    /\ OutNormalized = <<"x">> \o SHARE \o <<"x">>
    /\ r_out[1].id = None

\* ------------------------------------------------------------ the fallback
FallbackReturnedOk ==
    /\ pc = "returned"
    /\ requests /= <<>>
    /\ IsFallbackUrl(LastRequest)
    /\ ReturnedOk
FetchedText == resp[1].body
\* the pushed body of the fallback Document
DocumentBody == result[1].md[3].text
Least(S) == CHOOSE k \in S : \A m \in S : k <= m

\* the places where the marker text occurs, and those at the start of a line
MarkerPlaces(text) ==
    {i \in 1..Len(text) : StartsWith(From(text, i), YOU_SAID)}
LineStartMarkerPlaces(text) ==
    {i \in MarkerPlaces(text) : i = 1 \/ text[i - 1] = LF}

\* C16: in the fallback path, when the fetched text contains the marker
\* anywhere the Document body is the suffix of the text from the first
\* occurrence of the marker, else the whole text.
C16_BodyFromFirstMarker ==
    FallbackReturnedOk =>
        DocumentBody =
            (IF MarkerPlaces(FetchedText) /= {}
             THEN From(FetchedText, Least(MarkerPlaces(FetchedText)))
             ELSE FetchedText)

\* C16 as amended: when the fetched text contains the marker at the start of
\* a line the Document body is the suffix of the text from the first such
\* occurrence (the characters before it are dropped), else the whole text.
C16_BodyFromFirstLineStartMarker ==
    FallbackReturnedOk =>
        /\ result[1].md[3].kind = "body"
        /\ DocumentBody =
            (IF LineStartMarkerPlaces(FetchedText) /= {}
             THEN From(FetchedText, Least(LineStartMarkerPlaces(FetchedText)))
             ELSE FetchedText)

C16_Witness ==
    /\ FallbackReturnedOk
    /\ FetchedText = <<"x", LF>> \o YOU_SAID
    /\ DocumentBody = YOU_SAID

\* ----------------------------------------------------- line ends of a turn
Places(s, pat) == {i \in 1..Len(s) : StartsWith(From(s, i), pat)}
\* the texts emitted for the turns of the Document
EmittedTexts ==
    LET blocks == TurnBlocks(p_out[1])
    IN  [k \in 1..Len(blocks) |-> blocks[k].text]

\* C17: the emitted text of a turn contains no CR LF, whatever the extracted
\* text was.
C17_NoCRLFEmitted ==
    (p_in /= None /\ p_out /= None) =>
        \A k \in 1..Len(EmittedTexts) : Places(EmittedTexts[k], <<CR, LF>>) = {}

\* ------------------------------------------------- termination of convert
\* request k of an invocation is the fetch of step k: candidate 1,
\* candidate 2, the fallback; a step is entered only once its predecessor
\* has completed
StepsInOrder ==
    /\ Len(requests) <= 3
    /\ \A k \in 1..Len(requests) :
         requests[k] = (IF k <= 2 THEN candidates[k] ELSE FallbackUrl(normalized))
    /\ Len(outcomes) <= Len(requests)
    /\ Len(requests) <= Len(outcomes) + 1
    /\ pc \in {"candidate", "fallback"} <=> Len(requests) = Len(outcomes) + 1

\* C18: if every issued fetch completes, every invocation of convert returns
\* a Document or an Error, after at most three fetches (candidate 1,
\* candidate 2, fallback), no step fetched twice.
C18_ConvertTerminates ==
    /\ [](pc /= "idle" => StepsInOrder)
    /\ [](pc = "returned" => result /= None /\ result[1].tag \in {"Ok", "Err"})
    /\ (pc \in {"candidate", "fallback"}) ~> (pc = "returned")

C18_Witness ==
    /\ pc = "returned"
    /\ Len(requests) = 3
    /\ Len(outcomes) = 3
    /\ result /= None

====
